---- MODULE Spec2Model ----
(***************************************************************************)
(* XenaxController: a TCP client for a linear-motor rail controller.       *)
(* The model follows src/XenaxController.py statement by statement: the    *)
(* object's fields, the socket object self.socket refers to (its timeout,  *)
(* its connection state, the bytes buffered unread), the device at the     *)
(* other end of the stream, and the position of the one calling thread     *)
(* inside the method it is executing.                                      *)
(***************************************************************************)
EXTENDS Integers, Sequences, FiniteSets, TLC

VARIABLES
    constructed,            \* __init__ returned normally
    speed,                  \* self.speed
    acceleration,           \* self.acceleration
    limit_left,             \* self.limit_left
    limit_right,            \* self.limit_right (None or an integer)
    socket,                 \* self.socket: "None" or "sock" (a socket object)
    last_response,          \* self.last_response
    sockState,              \* the socket object: "none", "unconnected", "connected", "closed"
    timeout,                \* the socket object's timeout: "None", "zero", "short" (0.1 s)
    link,                   \* the TCP stream: "up", "eof" (peer closed), "reset", "dead"
    rxbuf,                  \* chunks received and not yet read by the client
    devq,                   \* commands the device has received and not yet answered
    call,                   \* the public method called last: [name, arg]
    pc,                     \* position of the calling thread; "idle" between calls
    command,                \* send_command's parameter
    original_blocking_mode, \* send_command's local variable
    exc,                    \* exception pending in clear_buffer's try statement
    initIdx,                \* initialize: index of the next step (1..5 commands, 6 SP, 7 AC)
    wire,                   \* commands written to the transport by the current call
    result,                 \* outcome of the last call: "running", "ok" or the exception raised
    retval,                 \* value returned by get_position
    entryMode,              \* socket.getblocking() when send_command was entered
    quiet,                  \* when clear_buffer ended nothing was buffered and no answer was owed
    drained,                \* clear_buffer discarded bytes that were buffered when it started
    devset                  \* sp, ac: the SP and AC values the device received last (0: none yet);
                            \* est: connect() has returned normally on the present socket

vars == <<constructed, speed, acceleration, limit_left, limit_right, socket,
          last_response, sockState, timeout, link, rxbuf, devq, devset, call, pc,
          command, original_blocking_mode, exc, initIdx, wire, result,
          retval, entryMode, quiet, drained>>

objVars == <<constructed, speed, acceleration, limit_left, limit_right, socket, last_response>>
sockVars == <<sockState, timeout, link, rxbuf, devq, devset>>
scVars == <<command, original_blocking_mode, exc, entryMode, quiet, drained>>

-----------------------------------------------------------------------------
(* Bounds of the model *)

MaxRx == 1          \* chunks that can sit unread in the receive buffer
MaxPending == 2     \* commands the device can hold unanswered
CenterRange == 3    \* the limits given to center_position lie in -CenterRange..CenterRange

(* Program constants *)

MinSpeed == 50
MaxSpeed == 10000000
MinAcceleration == 100000
MaxAcceleration == 10000000

None == <<>>
Some(v) == <<v>>

(* Inputs the caller passes *)

SpeedInputs == {49, 50, 10000000, 10000001}
AccelerationInputs == {99999, 100000, 10000001}
LeftInputs == {0}
RightInputs == {None, Some(10000)}
NoArg == [kind |-> "none", v |-> 0]
IntArg(n) == [kind |-> "int", v |-> n]
\* a float is written in tenths: [kind |-> "float", v |-> -5] is -0.5
PositionInputs ==
    {IntArg(n) : n \in {-1, 5000, 10001}}
      \cup {[kind |-> "float", v |-> t] : t \in {-5, 100005}}
      \cup {[kind |-> "str", v |-> 0]}

(* Replies of the device, as the bytes of one chunk *)
RawReplies == { <<">", " ", "7", "\r", "\n">>, <<"xFF">> }

-----------------------------------------------------------------------------
(* Pure helpers *)

\* mutant of InSpeedRange: the lower bound is not checked
InSpeedRangeNoLower(value) == value <= MaxSpeed

InSpeedRange(value) == MinSpeed <= value /\ value <= MaxSpeed

InAccelerationRange(value) == MinAcceleration <= value /\ value <= MaxAcceleration

\* socket.getblocking(): False exactly when the timeout is 0
GetBlocking(t) == t # "zero"

\* socket.setblocking(flag): timeout None when flag, 0.0 otherwise
SetBlockingTimeout(flag) == IF flag THEN "None" ELSE "zero"

\* int(value) of a float given in tenths: truncation toward zero
IntOfFloat(t) == IF t >= 0 THEN t \div 10 ELSE -((-t) \div 10)

StripChars == {">", " ", "\r", "\n"}

RECURSIVE LStrip(_)
LStrip(s) == IF s # <<>> /\ Head(s) \in StripChars THEN LStrip(Tail(s)) ELSE s

RECURSIVE RStrip(_)
RStrip(s) ==
    IF s # <<>> /\ s[Len(s)] \in StripChars THEN RStrip(SubSeq(s, 1, Len(s) - 1)) ELSE s

\* str.strip('> \r\n')
Strip(s) == RStrip(LStrip(s))

RECURSIVE Join(_)
Join(s) == IF s = <<>> THEN "" ELSE Head(s) \o Join(Tail(s))

\* the bytes one recv(1024) returns: everything buffered
RECURSIVE RecvBytes(_)
RecvBytes(buf) == IF buf = <<>> THEN <<>> ELSE Head(buf).raw \o RecvBytes(Tail(buf))

\* bytes.decode() raises UnicodeDecodeError on a byte that is not UTF-8
Decodable(bytes) == \A i \in 1..Len(bytes) : bytes[i] # "xFF"

\* mutant of CenterPosition: the half is rounded to the nearest integer
CenterPositionRounded(l, r) == (l + r + 1) \div 2

\* center_position, line 23: // is Python's floor division
CenterPosition(l, r) == (l + r) \div 2

-----------------------------------------------------------------------------
(* The state after XenaxController(ip, port, limit_left, limit_right, speed,
   acceleration): set_speed and set_acceleration run with during_init=True,
   so they validate and store but send nothing. *)

\* an attribute that was never assigned is written 0
Init ==
    \E s \in SpeedInputs, a \in AccelerationInputs, l \in LeftInputs, r \in RightInputs :
        /\ limit_left = l
        /\ limit_right = r
        /\ speed = IF InSpeedRange(s) THEN s ELSE 0
        /\ acceleration = IF InSpeedRange(s) /\ InAccelerationRange(a) THEN a ELSE 0
        /\ constructed = (InSpeedRange(s) /\ InAccelerationRange(a))
        /\ result = IF InSpeedRange(s) /\ InAccelerationRange(a) THEN "ok" ELSE "ValueError"
        /\ call = [name |-> "__init__", arg |-> [kind |-> "ctor", v |-> 0]]
        /\ socket = "None"
        /\ last_response = ""
        /\ sockState = "none"
        /\ timeout = "None"
        /\ link = "up"
        /\ rxbuf = <<>>
        /\ devq = <<>>
        /\ devset = [sp |-> 0, ac |-> 0, est |-> FALSE]
        /\ pc = "idle"
        /\ command = ""
        /\ original_blocking_mode = TRUE
        /\ exc = "none"
        /\ initIdx = 0
        /\ wire = <<>>
        /\ retval = ""
        /\ entryMode = TRUE
        /\ quiet = FALSE
        /\ drained = FALSE

-----------------------------------------------------------------------------
(* Control helpers *)

\* a public method is entered by the caller
Begin(name, arg) ==
    /\ pc = "idle"
    /\ constructed
    /\ call' = [name |-> name, arg |-> arg]
    /\ wire' = <<>>
    /\ retval' = ""

\* an exception leaves the method that was called: no method of the class
\* catches anything but socket.timeout (clear_buffer) and socket.error
\* (read_response)
\* the locals of the frames that are left cease to exist
Exit(r) ==
    /\ pc' = "idle"
    /\ result' = r
    /\ command' = ""
    /\ original_blocking_mode' = TRUE
    /\ exc' = "none"
    /\ entryMode' = TRUE
    /\ quiet' = FALSE
    /\ drained' = FALSE
    /\ initIdx' = 0

Raise(e) == Exit(e)

Return == Exit("ok")

\* self.send_command(cmd) is entered
SendCommandCall(cmd) ==
    /\ command' = cmd
    /\ entryMode' = GetBlocking(timeout)
    /\ pc' = "sc_getblocking"
    /\ result' = "running"
    /\ quiet' = FALSE
    /\ drained' = FALSE
    /\ UNCHANGED <<original_blocking_mode, exc, initIdx>>

\* the locals of send_command and the position in initialize stay as they are
KeepFrames == UNCHANGED <<scVars, initIdx>>

-----------------------------------------------------------------------------
(* connect, initialize, disconnect *)

\* mutant of InitCommands: homing after the events are disabled
InitCommandsReordered == <<"ECH0", "PW", "EVT1", "EVT0", "HORM">>

InitCommands == <<"ECH0", "PW", "EVT1", "HORM", "EVT0">>

\* mutant of Connect: initialize() runs although connect() failed
ConnectIgnoresFailure(ok) ==
    /\ Begin("connect", NoArg)
    /\ socket' = "sock"
    /\ timeout' = "None"
    /\ rxbuf' = <<>>
    /\ devq' = <<>>
    /\ devset' = [devset EXCEPT !.est = FALSE]
    /\ link' = "up"
    /\ sockState' = IF ok THEN "connected" ELSE "unconnected"
    /\ pc' = "init_loop"
    /\ initIdx' = 1
    /\ result' = "running"
    /\ UNCHANGED scVars
    /\ UNCHANGED <<constructed, speed, acceleration, limit_left, limit_right,
                   last_response>>

\* lines 47-48; ok: the TCP connection could be established
Connect(ok) ==
    /\ Begin("connect", NoArg)
    /\ socket' = "sock"
    /\ timeout' = "None"
    /\ rxbuf' = <<>>
    /\ devq' = <<>>
    /\ devset' = [devset EXCEPT !.est = FALSE]
    /\ link' = "up"
    /\ IF ok
         THEN /\ sockState' = "connected"
              /\ pc' = "init_loop"
              /\ initIdx' = 1
              /\ result' = "running"
              /\ UNCHANGED scVars
         ELSE /\ sockState' = "unconnected"
              /\ Raise("ConnectionRefusedError")
    /\ UNCHANGED <<constructed, speed, acceleration, limit_left, limit_right,
                   last_response>>

\* initialize() called by the caller
Initialize ==
    /\ Begin("initialize", NoArg)
    /\ pc' = "init_loop"
    /\ initIdx' = 1
    /\ result' = "running"
    /\ UNCHANGED <<objVars, sockVars, scVars>>

\* the body of set_speed(value) with during_init=False
SetSpeedBody(value) ==
    IF InSpeedRange(value)
      THEN /\ speed' = value
           /\ SendCommandCall("SP" \o ToString(value))
      ELSE /\ speed' = speed
           /\ Raise("ValueError")

\* mutant of SetAccelerationBody: the value is stored before it is validated
SetAccelerationBodyStoreFirst(value) ==
    /\ acceleration' = value
    /\ IF InAccelerationRange(value)
         THEN SendCommandCall("AC" \o ToString(value))
         ELSE Raise("ValueError")

\* the body of set_acceleration(value) with during_init=False
SetAccelerationBody(value) ==
    IF InAccelerationRange(value)
      THEN /\ acceleration' = value
           /\ SendCommandCall("AC" \o ToString(value))
      ELSE /\ acceleration' = acceleration
           /\ Raise("ValueError")

\* one step of initialize: the next command of the list, then set_speed,
\* then set_acceleration
InitializeStep ==
    /\ pc = "init_loop"
    /\ \/ /\ initIdx \in 1..Len(InitCommands)
          /\ SendCommandCall(InitCommands[initIdx])
          /\ UNCHANGED <<speed, acceleration>>
       \/ /\ initIdx = Len(InitCommands) + 1
          /\ SetSpeedBody(speed)
          /\ UNCHANGED acceleration
       \/ /\ initIdx = Len(InitCommands) + 2
          /\ SetAccelerationBody(acceleration)
          /\ UNCHANGED speed
    /\ UNCHANGED <<constructed, limit_left, limit_right, socket, last_response,
                   sockVars, call, wire, retval>>

\* send_command returned to initialize (time.sleep(0.2) after a list command)
InitializeResume ==
    /\ pc = "sc_ret"
    /\ call.name \in {"connect", "initialize"}
    /\ IF initIdx < Len(InitCommands) + 2
         THEN /\ initIdx' = initIdx + 1
              /\ pc' = "init_loop"
              /\ UNCHANGED <<result, scVars, devset>>
         ELSE /\ Return
              /\ devset' = [devset EXCEPT !.est = (@ \/ call.name = "connect")]
    /\ UNCHANGED <<objVars, sockState, timeout, link, rxbuf, devq, call, wire,
                   retval>>

\* line 63
Disconnect ==
    /\ Begin("disconnect", NoArg)
    /\ SendCommandCall("PQ")
    /\ UNCHANGED <<objVars, sockVars>>

\* line 64: send_command("PQ") returned, self.socket.close()
DisconnectClose ==
    /\ pc = "sc_ret"
    /\ call.name = "disconnect"
    /\ sockState' = "closed"
    /\ rxbuf' = <<>>
    /\ devq' = <<>>
    /\ UNCHANGED devset
    /\ Return
    /\ UNCHANGED <<objVars, timeout, link, call, wire, retval>>

-----------------------------------------------------------------------------
(* Parameter operations and commands *)

SetSpeed(value) ==
    /\ Begin("set_speed", IntArg(value))
    /\ SetSpeedBody(value)
    /\ UNCHANGED <<constructed, acceleration, limit_left, limit_right, socket,
                   last_response, sockVars>>

SetAcceleration(value) ==
    /\ Begin("set_acceleration", IntArg(value))
    /\ SetAccelerationBody(value)
    /\ UNCHANGED <<constructed, speed, limit_left, limit_right, socket,
                   last_response, sockVars>>

\* lines 131-134: a float is narrowed by int(), an int is kept
PositionValue(arg) == IF arg.kind = "float" THEN IntOfFloat(arg.v) ELSE arg.v

\* mutant of LimitCheck: the right limit is not checked
LimitCheckNoUpper(value) == IF limit_left <= value THEN "True" ELSE "False"

\* line 136: limit_left <= value <= limit_right; the chained comparison
\* stops at the first false operand, and comparing an int with None raises
\* TypeError
LimitCheck(value) ==
    IF ~(limit_left <= value) THEN "False"
    ELSE IF limit_right = None THEN "TypeError"
    ELSE IF value <= limit_right[1] THEN "True" ELSE "False"

SetPosition(arg) ==
    /\ Begin("set_position", arg)
    /\ IF arg.kind \notin {"int", "float"}
         THEN Raise("TypeError")
         ELSE CASE LimitCheck(PositionValue(arg)) = "True" ->
                      SendCommandCall("G" \o ToString(PositionValue(arg)))
                [] LimitCheck(PositionValue(arg)) = "False" ->
                      Raise("ValueError")
                [] OTHER -> Raise("TypeError")
    /\ UNCHANGED <<objVars, sockVars>>

GetPosition ==
    /\ Begin("get_position", NoArg)
    /\ SendCommandCall("TP")
    /\ UNCHANGED <<objVars, sockVars>>

\* mutant of GetPositionReturn: the stored response is not returned
GetPositionReturnNothing ==
    /\ pc = "sc_ret"
    /\ call.name = "get_position"
    /\ Return
    /\ UNCHANGED <<objVars, sockVars, call, wire, retval>>

\* line 144: return self.response()
GetPositionReturn ==
    /\ pc = "sc_ret"
    /\ call.name = "get_position"
    /\ retval' = last_response
    /\ Return
    /\ UNCHANGED <<objVars, sockVars, call, wire>>

SimpleCommands ==
    [jog_positive |-> "JP", jog_negative |-> "JN", power_on |-> "PW", power_off |-> "PQ"]

\* jog_positive, jog_negative, power_on, power_off
SimpleCommand(name) ==
    /\ Begin(name, NoArg)
    /\ SendCommandCall(SimpleCommands[name])
    /\ UNCHANGED <<objVars, sockVars>>

\* send_command returned to a method that returns right after it
CommandReturn ==
    /\ pc = "sc_ret"
    /\ call.name \in {"set_speed", "set_acceleration", "set_position"}
                        \cup DOMAIN SimpleCommands
    /\ Return
    /\ UNCHANGED <<objVars, sockVars, call, wire, retval>>

\* min_position = value
SetMinPosition(value) ==
    /\ Begin("min_position", NoArg)
    /\ limit_left' = value
    /\ Return
    /\ UNCHANGED <<constructed, speed, acceleration, limit_right, socket,
                   last_response, sockVars>>

\* max_position = value
SetMaxPosition(value) ==
    /\ Begin("max_position", NoArg)
    /\ limit_right' = value
    /\ Return
    /\ UNCHANGED <<constructed, speed, acceleration, limit_left, socket,
                   last_response, sockVars>>

\* the caller changes the blocking mode of the public attribute self.socket
CallerSetBlocking(flag) ==
    /\ pc = "idle"
    /\ constructed
    /\ socket = "sock"
    /\ sockState # "closed"
    /\ timeout' = SetBlockingTimeout(flag)
    /\ UNCHANGED <<objVars, sockState, link, rxbuf, devq, devset, scVars, call, pc,
                   initIdx, wire, result, retval>>


-----------------------------------------------------------------------------
(* send_command, clear_buffer, read_response *)

\* line 68: original_blocking_mode = self.socket.getblocking()
ScGetBlocking ==
    /\ pc = "sc_getblocking"
    /\ IF socket = "None"
         THEN Raise("AttributeError")
         ELSE /\ original_blocking_mode' = GetBlocking(timeout)
              /\ pc' = "sc_setblocking"
              /\ UNCHANGED <<result, command, exc, entryMode, quiet, drained, initIdx>>
    /\ UNCHANGED <<objVars, sockVars, call, wire, retval>>

\* mutant of ScSetBlocking: the buffer is not cleared before the send
ScSetBlockingSkipClear ==
    /\ pc = "sc_setblocking"
    /\ timeout' = SetBlockingTimeout(TRUE)
    /\ IF sockState = "closed"
         THEN Raise("OSError")
         ELSE pc' = "sc_sendall" /\ UNCHANGED result /\ KeepFrames
    /\ UNCHANGED <<objVars, sockState, link, rxbuf, devq, devset, call, wire, retval>>

\* line 69: self.socket.setblocking(1); on a closed socket the timeout is
\* stored and the call then fails with EBADF
ScSetBlocking ==
    /\ pc = "sc_setblocking"
    /\ timeout' = SetBlockingTimeout(TRUE)
    /\ IF sockState = "closed"
         THEN Raise("OSError")
         ELSE pc' = "cb_settimeout" /\ UNCHANGED result /\ KeepFrames
    /\ UNCHANGED <<objVars, sockState, link, rxbuf, devq, devset, call, wire, retval>>

\* the chunks that are buffered when clear_buffer starts
Buffered(buf) == [i \in 1..Len(buf) |-> [raw |-> buf[i].raw, gen |-> "pre"]]

HasPre(buf) == \E i \in 1..Len(buf) : buf[i].gen = "pre"

\* line 78: self.socket.settimeout(0.1)
CbSetTimeout ==
    /\ pc = "cb_settimeout"
    /\ timeout' = "short"
    /\ exc' = "none"
    /\ rxbuf' = Buffered(rxbuf)
    /\ pc' = "cb_recv"
    /\ UNCHANGED <<objVars, sockState, link, devq, devset, command,
                   original_blocking_mode, entryMode, quiet, drained, call,
                   initIdx, wire, result, retval>>

\* what a recv(1024) does on the socket: "error" (OSError), "data",
\* "empty" (b'', the peer closed), "timeout" (socket.timeout, with a finite
\* timeout) or "block" (no timeout and nothing to read)
RecvOutcome ==
    IF sockState # "connected" THEN "error"
    ELSE IF link = "reset" THEN "error"
    ELSE IF rxbuf # <<>> THEN "data"
    ELSE IF link \in {"eof", "dead"} THEN "empty"
    ELSE IF timeout = "None" THEN "block" ELSE "timeout"

\* the OSError a failing recv raises: ENOTCONN on a socket that is not
\* connected, ECONNRESET after a reset
RecvError == IF sockState # "connected" THEN "OSError" ELSE "ConnectionResetError"

\* a pending connection reset is reported once
LinkAfterError == IF link = "reset" THEN "dead" ELSE link

\* mutant of CbRecv: the clear looks at the buffered bytes without taking
\* them off the socket
CbRecvPeek ==
    /\ pc = "cb_recv"
    /\ RecvOutcome # "block"
    /\ CASE RecvOutcome \in {"data", "empty", "timeout"} ->
              pc' = "cb_finally" /\ UNCHANGED <<exc, rxbuf, link, drained>>
         [] OTHER ->
              /\ exc' = RecvError
              /\ link' = LinkAfterError
              /\ pc' = "cb_finally"
              /\ UNCHANGED <<rxbuf, drained>>
    /\ UNCHANGED <<objVars, sockState, timeout, devq, devset, command,
                   original_blocking_mode, entryMode, quiet, call, initIdx,
                   wire, result, retval>>

\* lines 80-85: one pass of the loop of clear_buffer
CbRecv ==
    /\ pc = "cb_recv"
    /\ RecvOutcome # "block"
    /\ CASE RecvOutcome = "data" ->
              /\ rxbuf' = <<>>
              /\ drained' = (drained \/ HasPre(rxbuf))
              /\ pc' = "cb_recv"
              /\ UNCHANGED <<exc, link>>
         [] RecvOutcome = "empty" ->
              pc' = "cb_finally" /\ UNCHANGED <<exc, rxbuf, link, drained>>
         [] RecvOutcome = "timeout" ->
              pc' = "cb_finally" /\ UNCHANGED <<exc, rxbuf, link, drained>>
         [] OTHER ->
              /\ exc' = RecvError
              /\ link' = LinkAfterError
              /\ pc' = "cb_finally"
              /\ UNCHANGED <<rxbuf, drained>>
    /\ UNCHANGED <<objVars, sockState, timeout, devq, devset, command,
                   original_blocking_mode, entryMode, quiet, call, initIdx,
                   wire, result, retval>>

\* line 87: finally: self.socket.settimeout(None); an exception other than
\* socket.timeout then leaves clear_buffer and send_command
CbFinally ==
    /\ pc = "cb_finally"
    /\ timeout' = "None"
    /\ IF exc # "none"
         THEN Raise(exc)
         ELSE /\ pc' = "sc_sendall"
              /\ quiet' = (rxbuf = <<>> /\ devq = <<>>)
              /\ UNCHANGED <<result, command, original_blocking_mode, exc,
                             entryMode, drained, initIdx>>
    /\ UNCHANGED <<objVars, sockState, link, rxbuf, devq, devset, call, wire, retval>>

\* every reply that is buffered or still owed belongs to an earlier command
Aged(q) == [i \in 1..Len(q) |-> "old"]
AgedChunks(buf) ==
    [i \in 1..Len(buf) |->
        [raw |-> buf[i].raw, gen |-> IF buf[i].gen = "pre" THEN "pre" ELSE "old"]]

\* the device takes over the value of an SP or AC command it receives
Delivered(d, cmd) ==
    IF \E v \in SpeedInputs : cmd = "SP" \o ToString(v)
      THEN [d EXCEPT !.sp = CHOOSE v \in SpeedInputs : cmd = "SP" \o ToString(v)]
    ELSE IF \E v \in AccelerationInputs : cmd = "AC" \o ToString(v)
      THEN [d EXCEPT !.ac = CHOOSE v \in AccelerationInputs : cmd = "AC" \o ToString(v)]
    ELSE d

\* the device holds at most MaxPending unanswered commands; the oldest is
\* never answered when one more arrives
Received(q) ==
    Append(IF Len(q) >= MaxPending THEN Tail(Aged(q)) ELSE Aged(q), "cur")

\* mutant of ScSendall: the write is issued a second time
ScSendallResend ==
    /\ pc = "sc_sendall"
    /\ CASE link = "up" ->
              /\ wire' = wire \o <<command, command>>
              /\ devq' = Received(Received(devq))
              /\ devset' = Delivered(devset, command)
              /\ rxbuf' = AgedChunks(rxbuf)
              /\ pc' = "sc_read"
              /\ UNCHANGED <<link, result>>
              /\ KeepFrames
         [] link = "eof" ->
              /\ wire' = Append(wire, command)
              /\ link' = "reset"
              /\ rxbuf' = <<>>
              /\ pc' = "sc_read"
              /\ UNCHANGED <<devq, devset, result>>
              /\ KeepFrames
         [] OTHER ->
              /\ Raise(IF link = "reset" THEN "ConnectionResetError" ELSE "BrokenPipeError")
              /\ link' = "dead"
              /\ UNCHANGED <<wire, devq, devset, rxbuf>>
    /\ UNCHANGED <<objVars, sockState, timeout, call, retval>>

\* lines 71-72: self.socket.sendall((command + '\r').encode())
ScSendall ==
    /\ pc = "sc_sendall"
    /\ CASE link = "up" ->
              /\ wire' = Append(wire, command)
              /\ devq' = Received(devq)
              /\ devset' = Delivered(devset, command)
              /\ rxbuf' = AgedChunks(rxbuf)
              /\ pc' = "sc_read"
              /\ UNCHANGED <<link, result>>
              /\ KeepFrames
         [] link = "eof" ->
              \* the write succeeds locally, the peer answers with a reset
              /\ wire' = Append(wire, command)
              /\ link' = "reset"
              /\ rxbuf' = <<>>
              /\ pc' = "sc_read"
              /\ UNCHANGED <<devq, devset, result>>
              /\ KeepFrames
         [] OTHER ->
              \* ECONNRESET if the reset is still pending, EPIPE afterwards
              /\ Raise(IF link = "reset" THEN "ConnectionResetError" ELSE "BrokenPipeError")
              /\ link' = "dead"
              /\ UNCHANGED <<wire, devq, devset, rxbuf>>
    /\ UNCHANGED <<objVars, sockState, timeout, call, retval>>

\* mutant of ReadResponse: the except clause is missing, a failing recv
\* leaves send_command
ReadResponseNoCatch ==
    /\ pc = "sc_read"
    /\ RecvOutcome # "block"
    /\ CASE RecvOutcome \in {"error", "timeout"} ->
              /\ Raise(RecvError)
              /\ link' = LinkAfterError
              /\ UNCHANGED <<rxbuf, last_response>>
         [] RecvOutcome = "data" /\ ~Decodable(RecvBytes(rxbuf)) ->
              /\ rxbuf' = <<>>
              /\ Raise("UnicodeDecodeError")
              /\ UNCHANGED <<last_response, link>>
         [] OTHER ->
              /\ last_response' = Join(Strip(RecvBytes(rxbuf)))
              /\ rxbuf' = <<>>
              /\ pc' = "sc_restore"
              /\ UNCHANGED <<link, result>>
              /\ KeepFrames
    /\ UNCHANGED <<constructed, speed, acceleration, limit_left, limit_right,
                   socket, sockState, timeout, devq, devset, call, wire, retval>>

\* lines 89-97 and line 73: self.last_response = self.read_response()
ReadResponse ==
    /\ pc = "sc_read"
    /\ RecvOutcome # "block"
    /\ CASE RecvOutcome \in {"error", "timeout"} ->
              \* except socket.error: return ""
              /\ last_response' = ""
              /\ link' = LinkAfterError
              /\ pc' = "sc_restore"
              /\ UNCHANGED <<rxbuf, result>>
              /\ KeepFrames
         [] RecvOutcome = "data" /\ ~Decodable(RecvBytes(rxbuf)) ->
              /\ rxbuf' = <<>>
              /\ Raise("UnicodeDecodeError")
              /\ UNCHANGED <<last_response, link>>
         [] OTHER ->
              /\ last_response' = Join(Strip(RecvBytes(rxbuf)))
              /\ rxbuf' = <<>>
              /\ pc' = "sc_restore"
              /\ UNCHANGED <<link, result>>
              /\ KeepFrames
    /\ UNCHANGED <<constructed, speed, acceleration, limit_left, limit_right,
                   socket, sockState, timeout, devq, devset, call, wire, retval>>

\* mutant of ScRestore: the blocking mode is not restored
ScRestoreSkipped ==
    /\ pc = "sc_restore"
    /\ pc' = "sc_ret"
    /\ UNCHANGED <<objVars, sockVars, scVars, call, initIdx, wire, result, retval>>

\* line 74: self.socket.setblocking(original_blocking_mode)
ScRestore ==
    /\ pc = "sc_restore"
    /\ timeout' = SetBlockingTimeout(original_blocking_mode)
    /\ pc' = "sc_ret"
    /\ UNCHANGED <<objVars, sockState, link, rxbuf, devq, devset, scVars, call,
                   initIdx, wire, result, retval>>

-----------------------------------------------------------------------------
(* The device and the network *)

\* the device sends a chunk of its answer to the oldest command it holds;
\* more: further chunks of that answer follow (echo, event and status lines)
DeviceReply(raw, more) ==
    /\ sockState = "connected"
    /\ link = "up"
    /\ devq # <<>>
    /\ Len(rxbuf) < MaxRx
    /\ rxbuf' = Append(rxbuf, [raw |-> raw, gen |-> Head(devq)])
    /\ devq' = IF more THEN devq ELSE Tail(devq)
    /\ UNCHANGED devset
    /\ UNCHANGED <<objVars, sockState, timeout, link, scVars, call, pc,
                   initIdx, wire, result, retval>>

\* the device closes its end of the connection
PeerClose ==
    /\ sockState = "connected"
    /\ link = "up"
    /\ link' = "eof"
    /\ devq' = <<>>
    /\ UNCHANGED devset
    /\ UNCHANGED <<objVars, sockState, timeout, rxbuf, scVars, call, pc,
                   initIdx, wire, result, retval>>

\* the connection is reset
PeerReset ==
    /\ sockState = "connected"
    /\ link \in {"up", "eof"}
    /\ link' = "reset"
    /\ devq' = <<>>
    /\ UNCHANGED devset
    /\ rxbuf' = <<>>
    /\ UNCHANGED <<objVars, sockState, timeout, scVars, call, pc, initIdx,
                   wire, result, retval>>

-----------------------------------------------------------------------------

Next ==
    \/ \E ok \in BOOLEAN : Connect(ok)
    \/ Initialize
    \/ InitializeStep
    \/ InitializeResume
    \/ Disconnect
    \/ DisconnectClose
    \/ \E v \in SpeedInputs : SetSpeed(v)
    \/ \E v \in AccelerationInputs : SetAcceleration(v)
    \/ \E a \in PositionInputs : SetPosition(a)
    \/ GetPosition
    \/ GetPositionReturn
    \/ \E n \in DOMAIN SimpleCommands : SimpleCommand(n)
    \/ CommandReturn
    \/ \E v \in LeftInputs : SetMinPosition(v)
    \/ \E v \in RightInputs : SetMaxPosition(v)
    \/ \E b \in BOOLEAN : CallerSetBlocking(b)
    \/ ScGetBlocking
    \/ ScSetBlocking
    \/ CbSetTimeout
    \/ CbRecv
    \/ CbFinally
    \/ ScSendall
    \/ ReadResponse
    \/ ScRestore
    \/ \E raw \in RawReplies, more \in BOOLEAN : DeviceReply(raw, more)
    \/ PeerClose
    \/ PeerReset

Spec == Init /\ [][Next]_vars

\* the steps the one thread of the client takes inside a method it has
\* entered; no await, lock or yield keeps it from taking the next one
ClientStep ==
    \/ InitializeStep
    \/ InitializeResume
    \/ DisconnectClose
    \/ GetPositionReturn
    \/ CommandReturn
    \/ ScGetBlocking
    \/ ScSetBlocking
    \/ CbSetTimeout
    \/ CbRecv
    \/ CbFinally
    \/ ScSendall
    \/ ReadResponse
    \/ ScRestore

\* the thread that is inside a method keeps running: a recv with a timeout
\* returns or raises within 100 ms, every other step returns at once
FairSpec == Spec /\ WF_vars(ClientStep)

TypeOK ==
    /\ constructed \in BOOLEAN
    /\ socket \in {"None", "sock"}
    /\ sockState \in {"none", "unconnected", "connected", "closed"}
    /\ timeout \in {"None", "zero", "short"}
    /\ link \in {"up", "eof", "reset", "dead"}
    /\ Len(rxbuf) <= MaxRx
    /\ Len(devq) <= MaxPending
    /\ Len(wire) <= Len(InitCommands) + 2

-----------------------------------------------------------------------------
(* center_position over a range of limits *)

\* the limits the caller gives: small ones of both signs and the 10000 of
\* the usual rail
CenterLimits == (-CenterRange..CenterRange) \cup {10000}

\* XenaxController(ip, limit_left=l, limit_right=r) with the default speed
\* and acceleration of line 6
InitCenter ==
    \E l \in CenterLimits, r \in {None} \cup {Some(v) : v \in CenterLimits} :
        /\ limit_left = l
        /\ limit_right = r
        /\ speed = 100000
        /\ acceleration = 1000000
        /\ constructed = TRUE
        /\ result = "ok"
        /\ call = [name |-> "__init__", arg |-> [kind |-> "ctor", v |-> 0]]
        /\ socket = "None"
        /\ last_response = ""
        /\ sockState = "none"
        /\ timeout = "None"
        /\ link = "up"
        /\ rxbuf = <<>>
        /\ devq = <<>>
        /\ devset = [sp |-> 0, ac |-> 0, est |-> FALSE]
        /\ pc = "idle"
        /\ command = ""
        /\ original_blocking_mode = TRUE
        /\ exc = "none"
        /\ initIdx = 0
        /\ wire = <<>>
        /\ retval = ""
        /\ entryMode = TRUE
        /\ quiet = FALSE
        /\ drained = FALSE

\* lines 20-23: the property center_position is read; retval is Some(c) for
\* the integer c it returns; int + None raises TypeError
CenterPositionGet ==
    /\ pc = "idle"
    /\ constructed
    /\ call' = [name |-> "center_position", arg |-> NoArg]
    /\ IF limit_right = None
         THEN result' = "TypeError" /\ retval' = None
         ELSE /\ result' = "ok"
              /\ retval' = Some(CenterPosition(limit_left, limit_right[1]))
    /\ UNCHANGED <<objVars, sockVars, scVars, pc, initIdx, wire>>

NextCenter ==
    \/ CenterPositionGet
    \/ \E v \in CenterLimits : SetMinPosition(v)
    \/ \E v \in CenterLimits : SetMaxPosition(Some(v))

SpecCenter == InitCenter /\ [][NextCenter]_vars

-----------------------------------------------------------------------------
(* Properties *)

\* get_speed()
get_speed == speed

\* the methods that send one command
CommandOps ==
    {"set_speed", "set_acceleration", "set_position", "get_position"}
      \cup DOMAIN SimpleCommands

\* the call that was made last has finished
Finished(name) == pc = "idle" /\ call.name = name

\* C1: every call of disconnect() on a connected client executes
\* socket.close(), also when the send of PQ raised: once disconnect() has
\* finished, the socket is not left connected.
C1_DisconnectAlwaysCloses ==
    Finished("disconnect") => sockState # "connected"

\* C2: initialize() sends ECH0, PW, EVT1, HORM, EVT0, SP<speed>,
\* AC<acceleration> in that order and nothing else: what it has written is
\* at every moment a prefix of that sequence, and the whole sequence once it
\* has returned normally.
C2_InitializeSequence ==
    LET expected == <<"ECH0", "PW", "EVT1", "HORM", "EVT0",
                      "SP" \o ToString(speed), "AC" \o ToString(acceleration)>>
    IN  call.name \in {"connect", "initialize"} =>
          /\ Len(wire) <= Len(expected)
          /\ wire = SubSeq(expected, 1, Len(wire))
          /\ (pc = "idle" /\ result = "ok") => wire = expected

C2_Witness ==
    /\ Finished("connect")
    /\ result = "ok"
    /\ wire = <<"ECH0", "PW", "EVT1", "HORM", "EVT0", "SP10000000", "AC100000">>

\* C3: when send_command returns normally, the blocking mode of the socket
\* is the one it had when send_command was entered.
C3_BlockingModeRestored ==
    pc = "sc_ret" => GetBlocking(timeout) = entryMode

C3_Witness == pc = "sc_ret" /\ ~entryMode /\ timeout = "zero" /\ wire # <<>>

\* C4: when the buffer clear, the send or the read inside send_command
\* fails with an exception on a connected socket, the blocking mode of the
\* socket after send_command is left equals the mode at entry.
C4_RestoreExceptionSafe ==
    [][(/\ pc \in {"cb_finally", "sc_sendall", "sc_read"}
        /\ sockState = "connected"
        /\ pc' = "idle")
          => GetBlocking(timeout') = entryMode]_vars

\* C5: in every client state set_speed(v) with 50 <= v <= 10,000,000
\* succeeds and get_speed() = v afterwards; with v outside the range it
\* fails and get_speed() returns what it returned before the call.
C5_SetSpeedEveryState ==
    /\ [](Finished("set_speed") /\ 50 <= call.arg.v /\ call.arg.v <= 10000000
            => result = "ok" /\ get_speed = call.arg.v)
    /\ [][\A v \in SpeedInputs :
            (SetSpeed(v) /\ ~(50 <= v /\ v <= 10000000))
              => (pc' = "idle" /\ result' = "ValueError" /\ get_speed' = get_speed)]_vars

\* the call ends at once with ValueError and has changed nothing
Rejected ==
    /\ pc' = "idle"
    /\ result' = "ValueError"
    /\ wire' = <<>>
    /\ UNCHANGED <<speed, acceleration, limit_left, limit_right, last_response,
                   sockVars>>

\* C6: a setter called with invalid input raises before any I/O: the call
\* ends at once with ValueError, nothing is written to the transport, and
\* speed, acceleration, the limits and last_response are as before.
C6_InvalidSetterNoEffect ==
    [][/\ \A v \in SpeedInputs :
            (SetSpeed(v) /\ ~(50 <= v /\ v <= 10000000)) => Rejected
       /\ \A v \in AccelerationInputs :
            (SetAcceleration(v) /\ ~(100000 <= v /\ v <= 10000000)) => Rejected
       /\ \A a \in PositionInputs :
            (/\ SetPosition(a)
             /\ a.kind = "int"
             /\ limit_right # None
             /\ ~(limit_left <= a.v /\ a.v <= limit_right[1])) => Rejected]_vars

C6_Witness ==
    /\ Finished("set_position")
    /\ call.arg = IntArg(10001)
    /\ result = "ValueError"
    /\ limit_left = 0
    /\ limit_right = Some(10000)
    /\ sockState = "connected"
    /\ link = "up"

\* C7: on a connected client with both limits set, set_position(v) with an
\* integer v writes the one command G<v> and nothing else when
\* limit_left <= v <= limit_right, and otherwise raises ValueError and
\* writes nothing.
C7_SetPositionLimits ==
    (/\ call.name = "set_position"
     /\ call.arg.kind = "int"
     /\ sockState = "connected"
     /\ limit_right # None)
      => IF limit_left <= call.arg.v /\ call.arg.v <= limit_right[1]
           THEN /\ wire \in {<<>>, <<"G" \o ToString(call.arg.v)>>}
                /\ (pc \in {"sc_read", "sc_restore", "sc_ret"} \/ (pc = "idle" /\ link = "up"))
                     => wire = <<"G" \o ToString(call.arg.v)>>
           ELSE pc = "idle" /\ result = "ValueError" /\ wire = <<>>

C7_Witness ==
    /\ Finished("set_position")
    /\ call.arg = IntArg(5000)
    /\ limit_left = 0
    /\ limit_right = Some(10000)
    /\ result = "ok"
    /\ wire = <<"G5000">>

\* C8: a transport error of the response read does not leave send_command:
\* last_response becomes "", send_command goes on to restore the blocking
\* mode and returns, and get_position() then returns last_response.
C8_ReadErrorAbsorbed ==
    [][/\ (pc = "sc_read" /\ pc' # pc /\ RecvOutcome = "error")
             => (pc' = "sc_restore" /\ last_response' = "" /\ result' = "running")
       /\ (pc = "sc_restore" /\ pc' # pc)
             => (pc' = "sc_ret" /\ last_response' = last_response /\ result' = "running")
       /\ (pc = "sc_ret" /\ call.name = "get_position" /\ pc' # pc)
             => (pc' = "idle" /\ result' = "ok" /\ retval' = last_response)]_vars

C8_Witness ==
    /\ Finished("get_position")
    /\ result = "ok"
    /\ retval = ""
    /\ wire = <<"TP">>
    /\ link = "dead"

\* C9: a call of a command operation puts at most one command on the wire,
\* and an error of the write ends the call with that error without a
\* second write.
C9_NoResend ==
    /\ [](call.name \in CommandOps => Len(wire) <= 1)
    /\ [][(pc = "sc_sendall" /\ pc' # pc /\ link \in {"reset", "dead"})
            => (/\ pc' = "idle"
                /\ result' \in {"ConnectionResetError", "BrokenPipeError"}
                /\ wire' = wire)]_vars

C9_Witness ==
    /\ pc = "idle"
    /\ call.name \in CommandOps
    /\ result = "BrokenPipeError"
    /\ wire = <<>>

\* C10: self.socket is non-null only between a successful connect() and the
\* matching disconnect(): it is null after a connect() that could not
\* establish the transport and after a disconnect() that has completed.
C10_HandleOnlyWhileConnected ==
    /\ (Finished("connect") /\ result = "ConnectionRefusedError") => socket = "None"
    /\ (Finished("disconnect") /\ result = "ok") => socket = "None"
    /\ socket = "sock" => sockState = "connected"

\* C11: once construction has succeeded, speed is in [50, 10,000,000] and
\* acceleration in [100,000, 10,000,000] in every state, whatever was called
\* and however it ended; a construction that did not succeed was given an
\* out-of-range value and raised ValueError.
C11_RangesAlwaysHold ==
    /\ constructed =>
         /\ 50 <= speed /\ speed <= 10000000
         /\ 100000 <= acceleration /\ acceleration <= 10000000
    /\ ~constructed =>
         /\ call.name = "__init__"
         /\ result = "ValueError"
         /\ ~(50 <= speed /\ 100000 <= acceleration)

C11_Witness ==
    /\ Finished("set_acceleration")
    /\ call.arg = IntArg(99999)
    /\ result = "ValueError"
    /\ sockState = "closed"
    /\ speed = 10000000

\* the recv of read_response returns only bytes the device sent in answer to
\* the command this send_command has written
ReadsOwnReply == \A i \in 1..Len(rxbuf) : rxbuf[i].gen = "cur"

\* the step of get_position() in which read_response returns
GetPositionReads ==
    /\ call.name = "get_position"
    /\ pc = "sc_read"
    /\ pc' = "sc_restore"

\* C12 as stated: under every interleaving of the device's answers, what
\* get_position() reads is the answer to its own TP and never (part of) the
\* answer to an earlier command.
C12_AlwaysOwnReply == [][GetPositionReads => ReadsOwnReply]_vars

C12_QuietStep ==
    /\ (GetPositionReads /\ quiet) =>
          /\ wire = <<"TP">>
          /\ ReadsOwnReply
          /\ last_response' =
                IF RecvOutcome = "data" THEN Join(Strip(RecvBytes(rxbuf))) ELSE ""
    /\ (call.name = "get_position" /\ pc \in {"sc_restore", "sc_ret"}) =>
          last_response' = last_response
    /\ (call.name = "get_position" /\ pc = "sc_ret" /\ pc' = "idle") =>
          /\ result' = "ok"
          /\ retval' = last_response

\* C12: if nothing is buffered and the device owes no answer to an earlier
\* command when the buffer clear of get_position() ends, then exactly TP has
\* been written, the one recv returns only bytes sent in answer to that TP
\* (or fails, giving ""), and get_position() returns exactly that, stripped.
C12_OwnReplyWhenQuiet == [][C12_QuietStep]_vars

C12_Witness ==
    /\ call.name = "get_position"
    /\ pc = "sc_ret"
    /\ quiet
    /\ wire = <<"TP">>
    /\ last_response = "7"

\* center_position has returned an integer
CenterReturned == Finished("center_position") /\ result = "ok"

\* C13 as stated: center_position is (limit_left + limit_right) / 2 with the
\* fraction cut off (truncation, toward zero), for limits of either sign.
C13_CenterTruncates ==
    CenterReturned =>
        LET sum == limit_left + limit_right[1] IN
            retval[1] = IF sum >= 0 THEN sum \div 2 ELSE -((-sum) \div 2)

\* C13: center_position is the floor of (limit_left + limit_right) / 2, the
\* greatest integer c with 2c <= limit_left + limit_right: the half is cut
\* off toward minus infinity, also for a negative sum, and never rounded up
\* (0, 10000 and 1, 10000 both give 5000; -3, 0 gives -2); with limit_right
\* unset the read raises TypeError.
C13_CenterIsFloor ==
    /\ CenterReturned =>
          LET sum == limit_left + limit_right[1]
              c == retval[1]
          IN  /\ 2 * c <= sum
              /\ sum <= 2 * c + 1
              /\ (limit_left \in {0, 1} /\ limit_right = Some(10000)) => c = 5000
    /\ Finished("center_position") =>
          (result = "ok" <=> limit_right # None)

C13_Witness ==
    /\ CenterReturned
    /\ limit_left = -3
    /\ limit_right = Some(0)
    /\ retval = Some(-2)

\* C14: the loop of clear_buffer is left again whatever the device does,
\* also when it keeps sending, and the step that leaves clear_buffer
\* leaves the socket without a timeout, however the loop ended.
C14_ClearBufferTerminates ==
    /\ (pc = "cb_recv") ~> (pc # "cb_recv")
    /\ [][(pc = "cb_finally" /\ pc' # "cb_finally") => timeout' = "None"]_vars

\* the positions inside send_command, in the order of lines 68-74
ScOrder ==
    <<"sc_getblocking", "sc_setblocking", "cb_settimeout", "cb_recv",
      "cb_finally", "sc_sendall", "sc_read", "sc_restore", "sc_ret">>

ScPos(p) == CHOOSE i \in 1..Len(ScOrder) : ScOrder[i] = p

InSendCommand == \E i \in 1..Len(ScOrder) : ScOrder[i] = pc

C15_Step ==
    \* a step inside send_command stays (the loop of clear_buffer), goes to
    \* the next position, or leaves with an exception
    /\ (InSendCommand /\ pc' # pc) =>
          \/ pc' = "idle" /\ result' # "ok"
          \/ pc = "sc_ret"
          \/ InSendCommand' /\ ScPos(pc') = ScPos(pc) + 1
    /\ (InSendCommand /\ pc' = pc) => (pc = "cb_recv" \/ UNCHANGED <<wire, last_response>>)
    /\ (InSendCommand /\ pc # "sc_ret" /\ InSendCommand') => command' = command
    \* blocking mode is forced before the clear and is in force at the send
    /\ (pc = "sc_setblocking" /\ pc' = "cb_settimeout") => timeout' = "None"
    /\ pc' = "sc_sendall" => timeout' = "None"
    \* the only write is the one of the command, between clear and read
    /\ wire' # wire =>
          \/ pc = "idle" /\ wire' = <<>>
          \/ pc = "sc_sendall" /\ pc' = "sc_read" /\ wire' = Append(wire, command)
    /\ (pc = "sc_sendall" /\ pc' = "sc_read") => wire' = Append(wire, command)
    \* bytes are taken from the socket by the clear and by the one read only
    /\ (InSendCommand /\ Len(rxbuf') < Len(rxbuf) /\ link' = link
          /\ sockState' = sockState) =>
          pc \in {"cb_recv", "sc_read"}
    \* last_response is stored by the step that reads, and by no other
    /\ last_response' # last_response => (pc = "sc_read" /\ pc' = "sc_restore")
    \* the mode saved on entry is put back last
    /\ (pc = "sc_restore" /\ pc' = "sc_ret") =>
          timeout' = SetBlockingTimeout(original_blocking_mode)

\* C15: inside send_command the steps are taken in the order force blocking,
\* clear the buffer, write the command once, read once and store
\* last_response, restore the mode: nothing is written before the clear has
\* ended, nothing is read for the response before the write, and a method
\* that sends one command has written nothing before the send and exactly
\* its command after it.
C15_SendCommandOrder ==
    /\ [][C15_Step]_vars
    /\ [](InSendCommand /\ call.name \in CommandOps \cup {"disconnect"} =>
            wire = IF ScPos(pc) <= ScPos("sc_sendall") THEN <<>> ELSE <<command>>)

C15_Witness ==
    /\ pc = "sc_ret"
    /\ call.name = "jog_positive"
    /\ wire = <<"JP">>
    /\ last_response = "7"
    /\ timeout = "zero"

\* C16: once connect() has returned normally, whenever no method is running
\* on the connected socket the device holds the client's values: the last SP
\* it received is speed and the last AC it received is acceleration, also
\* after a set_speed or set_acceleration that failed.
C16_DeviceSettingsMatch ==
    (pc = "idle" /\ devset.est /\ sockState = "connected") =>
        /\ devset.sp = speed
        /\ devset.ac = acceleration

\* a write to the transport is only ever made on a connected socket
C17_WriteStep == wire' # wire /\ wire' # <<>> => sockState = "connected"

\* C17: nothing is written to the transport unless the connection is
\* established: a write happens on a connected socket only, initialize() runs
\* inside connect() only when the connection was made, and a command method
\* called with no socket, after a failed connect() or after the socket was
\* closed ends with an error and has written nothing.
C17_NoWriteUnlessConnected ==
    /\ [][C17_WriteStep]_vars
    /\ []((call.name = "connect" /\ pc # "idle") => sockState = "connected")
    /\ []((call.name = "connect" /\ pc = "idle" /\ sockState # "connected") =>
            (result = "ConnectionRefusedError" /\ wire = <<>>))
    /\ [](\A n \in CommandOps :
            (Finished(n) /\ sockState # "connected") =>
                (result \notin {"ok", "running"} /\ wire = <<>>))

C17_Witness ==
    /\ Finished("jog_positive")
    /\ sockState = "unconnected"
    /\ result = "OSError"
    /\ wire = <<>>

\* the step with which disconnect() ends, normally or with an exception
DisconnectEnds == call.name = "disconnect" /\ pc # "idle" /\ pc' = "idle"

C18_Step ==
    \* the first disconnect() after a successful connect() executes close()
    /\ (DisconnectEnds /\ devset.est /\ sockState = "connected") =>
          (pc = "sc_ret" /\ sockState' = "closed")
    \* a further disconnect() does not execute it again
    /\ (DisconnectEnds /\ sockState = "closed") => pc # "sc_ret"
    \* and nothing but line 64 closes the socket
    /\ (sockState # "closed" /\ sockState' = "closed") =>
          (DisconnectEnds /\ pc = "sc_ret")

\* C18: the transport is closed exactly once per successful connect():
\* close() is executed by the first disconnect() that follows it and by no
\* later disconnect() on the same socket.
C18_ClosedExactlyOnce == [][C18_Step]_vars

\* the step of send_command that stores last_response
StoresResponse == pc = "sc_read" /\ pc' = "sc_restore"

\* C19: what was buffered unread when send_command started its buffer clear
\* is gone when the clear has ended without an exception: none of it is
\* left at the write or at the read, so the bytes the read returns, from
\* which last_response is made, contain none of it.
C19_BufferedBytesDiscarded ==
    /\ [](pc \in {"sc_sendall", "sc_read"} => ~HasPre(rxbuf))
    /\ [][StoresResponse =>
            /\ ~HasPre(rxbuf)
            /\ last_response' =
                  IF RecvOutcome = "data" THEN Join(Strip(RecvBytes(rxbuf))) ELSE ""]_vars

C19_Witness ==
    /\ pc = "sc_restore"
    /\ drained
    /\ call.name = "jog_negative"
    /\ last_response = "7"
====
